---- MODULE Spec2Model ----
(***************************************************************************)
(* DaSystem Log Service (src/src/index.js): a Cloudflare Worker with two   *)
(* entry points, POST /api (bearer token, one log event per request) and   *)
(* POST /ably (shared secret, a batch of enveloped events).  Both feed     *)
(* handleApiRequest, which validates the event, appends one row to the D1  *)
(* table log1 and forwards events of level >= 3 to Telegram.               *)
(*                                                                         *)
(* A request is modelled as a process that advances from one await of an   *)
(* I/O call to the next: reading the body, the D1 run(), the Telegram      *)
(* fetch().  The module-level variables G_ENV and G_DB of the source are   *)
(* state shared by all requests.  What the collaborators observe (rows     *)
(* handed to D1, calls of the notification functions, transport calls) is  *)
(* recorded per request in calls.                                          *)
(***************************************************************************)
EXTENDS Integers, Sequences, FiniteSets, TLC

(***************************************************************************)
(* JavaScript values.                                                      *)
(***************************************************************************)
Undef == [t |-> "undefined"]
Null == [t |-> "null"]
Num(n) == [t |-> "number", n |-> n]
Str(s) == [t |-> "string", s |-> s]
Arr(a) == [t |-> "array", a |-> a]
\* a JSON document: well formed text that encodes the value v, or text
\* that JSON.parse rejects
Json(v) == [t |-> "string", s |-> "json", doc |-> v]
Garbage == [t |-> "string", s |-> "{not json"]

\* ToBoolean: undefined, null, 0 and "" are falsy
Truthy(v) ==
  CASE v.t = "undefined" -> FALSE
    [] v.t = "null" -> FALSE
    [] v.t = "number" -> v.n # 0
    [] v.t = "string" -> v.s # ""
    [] OTHER -> TRUE

\* typeof v === "object" (null and arrays included)
TypeofObject(v) == v.t \in {"object", "array", "null"}

\* v.f : undefined on a primitive or on an object without the property;
\* the caller handles null and undefined, where the read throws
Get(v, f) == IF v.t = "object" /\ f \in DOMAIN v THEN v[f] ELSE Undef

\* a property read of null or undefined throws a TypeError
ReadThrows(v) == v.t \in {"null", "undefined"}
TypeErrorMsg == "Cannot read properties of null"

\* v?.f
OptGet(v, f) == IF ReadThrows(v) THEN Undef ELSE Get(v, f)

\* JSON.parse(x): x is converted to a string first, so a number parses to
\* itself and an object ("[object Object]") is rejected
SyntaxErrorMsg == "Unexpected token"
JSONparse(x) ==
  CASE x.t = "string" /\ "doc" \in DOMAIN x -> [ok |-> TRUE, v |-> x.doc]
    [] x.t \in {"number", "null"} -> [ok |-> TRUE, v |-> x]
    [] OTHER -> [ok |-> FALSE, v |-> Undef]

\* level >= 3 with ToNumber applied to the left operand: null is 0, and
\* undefined and the non-numeric strings are NaN, for which >= is false
GreaterEq3(v) ==
  CASE v.t = "number" -> v.n >= 3
    [] OTHER -> FALSE

(***************************************************************************)
(* Header strings, as sequences of characters, for startsWith and split.   *)
(***************************************************************************)
Bearer == <<"B", "e", "a", "r", "e", "r">>
Basic == <<"B", "a", "s", "i", "c">>
Sp == <<" ">>
Tok == <<"t", "o", "k">>
Bad == <<"b", "a", "d">>
NoHeader == [present |-> FALSE, s |-> <<>>]
Header(s) == [present |-> TRUE, s |-> s]

\* s.startsWith(prefix)
startsWith(s, prefix) ==
  /\ Len(s) >= Len(prefix)
  /\ SubSeq(s, 1, Len(prefix)) = prefix

\* index of the first space of s at or after i, Len(s) + 1 when none
RECURSIVE NextSpace(_, _)
NextSpace(s, i) ==
  IF i > Len(s) THEN Len(s) + 1
  ELSE IF s[i] = " " THEN i
  ELSE NextSpace(s, i + 1)

\* s.split(" ")
RECURSIVE split(_)
split(s) ==
  LET k == NextSpace(s, 1) IN
    IF k > Len(s) THEN <<s>>
    ELSE <<SubSeq(s, 1, k - 1)>> \o split(SubSeq(s, k + 1, Len(s)))

(***************************************************************************)
(* Invocation contexts (env) and requests.                                 *)
(***************************************************************************)
\* the longest items / messages array of a webhook body
MaxBatch == 2

D1(name) == [t |-> "d1", name |-> name]
Secret == Str("s3cret")

\* env: the D1 binding and the four secrets.  The write token and the
\* webhook secret are the same in every context; the Telegram credential
\* and chat id may each be unset.
Environment(db, bot, chat) ==
  [DB |-> D1(db), DA_WRITETOKEN |-> Tok, ABLY_WEBHOOK_SECRET |-> Secret,
   LOG_TELEGRAM_BOT_TOKEN |-> bot, LOG_TELEGRAM_CHAT_ID |-> chat]
Envs ==
  {Environment("db1", Str("bot"), Str("chat")),
   Environment("db2", Str("bot"), Undef),
   Environment("db1", Undef, Str("chat")),
   Environment("db2", Undef, Undef)}

\* payload objects; an absent property reads as undefined
LogEvent(service, instance, level, message) ==
  [t |-> "object", service |-> service, instance |-> instance,
   level |-> level, message |-> message]
Services == {Undef, Str(""), Str("svc")}
Instances == {Undef, Str("i1")}
Levels == {Undef, Null, Num(0), Num(2), Num(3), Num(5)}
Texts == {Undef, Str(""), Str("boom")}
LogEvents ==
  {LogEvent(s, i, l, m) : s \in Services, i \in Instances, l \in Levels, m \in Texts}

\* POST /api bodies: {request_id?, payload}
RequestEnvelope(rid, payload) ==
  [t |-> "object", request_id |-> rid, payload |-> payload]
RequestIds == {Undef, Str(""), Str("r1")}
ApiPayloads == {Undef, Null, Str("text")} \cup LogEvents
ApiBodies ==
  {Garbage, Json(Null), Json(Num(1))}
    \cup {Json(RequestEnvelope(r, p)) : r \in RequestIds, p \in ApiPayloads}

AuthHeaders ==
  {NoHeader, Header(<<>>), Header(Bearer), Header(Bearer \o Sp),
   Header(Bearer \o Sp \o Bad), Header(Basic \o Sp \o Tok), Header(Tok),
   Header(Bearer \o Sp \o Sp \o Tok), Header(Bearer \o Sp \o Tok \o Sp \o Bad),
   Header(Bearer \o Sp \o Tok)}

\* POST /ably bodies: {items | messages: [{data: "<json>"}]}
WebhookMessage(data) == [t |-> "object", data |-> data]
Inner(payload) == [t |-> "object", payload |-> payload]
Elements ==
  {Null, Num(7), WebhookMessage(Undef), WebhookMessage(Garbage),
   WebhookMessage(Json(Null)), WebhookMessage(Json(Inner(Str("text")))),
   WebhookMessage(Json(Inner(LogEvent(Undef, Str("i1"), Num(5), Str("boom"))))),
   WebhookMessage(Json(Inner(LogEvent(Str("svc"), Str("i1"), Num(0), Str("boom"))))),
   WebhookMessage(Json(Inner(LogEvent(Str("svc"), Str("i1"), Num(3), Str("boom")))))}
Batches == UNION {[1..n -> Elements] : n \in 0..MaxBatch}
Short == {b \in Batches : Len(b) <= 1}
WebhookEnvelope(items, messages) ==
  [t |-> "object", items |-> items, messages |-> messages]
AblyBodies ==
  {Garbage, Json(Null), Json(Num(1)), Json(WebhookEnvelope(Undef, Undef))}
    \cup {Json(WebhookEnvelope(Arr(b), Undef)) : b \in Batches}
    \cup {Json(WebhookEnvelope(Undef, Arr(b))) : b \in Short}
    \cup {Json(WebhookEnvelope(Str("none"), Arr(b))) : b \in Short}
    \cup {Json(WebhookEnvelope(Arr(b), Arr(<<Num(7)>>))) : b \in Short}
AblyHeaders == {Undef, Str(""), Str("wrong"), Secret}

Request(method, path, auth, ably, body, env) ==
  [method |-> method, path |-> path, Authorization |-> auth,
   XAblyAuth |-> ably, body |-> body, env |-> env]
AnyBody == Json(RequestEnvelope(Str("r1"),
                  LogEvent(Str("svc"), Str("i1"), Num(3), Str("boom"))))
AnyBatch ==
  Json(WebhookEnvelope(Arr(<<WebhookMessage(Json(Inner(
         LogEvent(Str("svc"), Str("i1"), Num(3), Str("boom")))))>>), Undef))
\* every authenticated request with every body; the rejected ones with a
\* body that would be stored and notified if it were let through
Requests ==
  {Request("POST", "/api", Header(Bearer \o Sp \o Tok), Undef, b, e) :
     b \in ApiBodies, e \in Envs}
    \cup {Request("POST", "/api", a, Undef, b, e) :
            a \in AuthHeaders, e \in Envs,
            b \in {AnyBody, Garbage, Json(Null),
                   Json(RequestEnvelope(Str("r1"), Undef))}}
    \cup {Request("POST", "/ably", NoHeader, Secret, b, e) : b \in AblyBodies, e \in Envs}
    \cup {Request("POST", "/ably", NoHeader, h, AnyBatch, e) : h \in AblyHeaders, e \in Envs}
    \cup {Request(m, p, a, h, b, e) :
            m \in {"GET", "PUT"}, p \in {"/api", "/ably", "/"},
            a \in {NoHeader, Header(Bearer \o Sp \o Tok)}, h \in {Undef, Secret},
            b \in {AnyBody, AnyBatch}, e \in Envs}
    \cup {Request("POST", p, Header(Bearer \o Sp \o Tok), Secret, b, e) :
            p \in {"/", "/api/"}, b \in {AnyBody, AnyBatch}, e \in Envs}

(***************************************************************************)
(* State.                                                                  *)
(***************************************************************************)
Procs == {1, 2}

VARIABLES
  G_ENV,      \* the module-level env of the source, null until a request sets it
  G_DB,       \* the module-level D1 handle
  pc,         \* per request: the await it is suspended at
  request,    \* per request: the inbound request and its env
  frame,      \* per request: the local variables of its handler
  calls,      \* per request: the calls it has made on its collaborators
  response,   \* per request: what the fetch handler returned
  earlier     \* the INSERTs of the first delivery, while its redelivery is handled

vars == <<G_ENV, G_DB, pc, request, frame, calls, response, earlier>>

NoResponse == [shape |-> "none", status |-> 0]
NoFrame ==
  [mode |-> "none", requestId |-> "", payload |-> Undef, messages |-> <<>>,
   i |-> 0, cont |-> "", err |-> ""]
NoRequest == Request("", "", NoHeader, Undef, Garbage, Null)
NoEarlier == [delivered |-> FALSE, inserts |-> <<>>, held |-> TRUE]

\* new Response(text, {status})
Response(text, status) == [shape |-> "text", status |-> status, text |-> text]

\* an exception that leaves the fetch handler
Thrown(message) == [shape |-> "throw", status |-> 0, error |-> message]

(***************************************************************************)
(* Utility (lines 153-174).                                                *)
(***************************************************************************)
jsonResponse(obj, status) == [shape |-> "json", status |-> status, json |-> obj]

ack(requestId) == jsonResponse([type |-> "ack", request_id |-> requestId], 200)

nack(requestId, code, message) ==
  jsonResponse(
    [type |-> "nack", request_id |-> requestId,
     payload |-> [status |-> "error", code |-> code, message |-> message]],
    400)

\* the handler returns: the request is answered
Finish(L, r) == [L EXCEPT !.pc = "done", !.response = r]

Called(L, call) == [L EXCEPT !.calls = Append(@, call)]

(***************************************************************************)
(* The handlers.  L is the running request together with the globals as it *)
(* sees them: [pc, frame, calls, response, G_ENV, G_DB].  Each operator    *)
(* runs the code from one point up to the next await of an I/O call, or to *)
(* the return of the response.                                             *)
(***************************************************************************)
RECURSIVE Resume(_), Loop(_)

\* lines 191-196 with a send given up only when both are missing
Configured_either(genv) ==
  /\ genv # Null
  /\ Truthy(genv.LOG_TELEGRAM_BOT_TOKEN) \/ Truthy(genv.LOG_TELEGRAM_CHAT_ID)

\* line 192-196: the send is skipped without G_ENV, a bot token and a chat id
Configured(genv) ==
  /\ genv # Null
  /\ Truthy(genv.LOG_TELEGRAM_BOT_TOKEN)
  /\ Truthy(genv.LOG_TELEGRAM_CHAT_ID)

\* notifyTextTelegram(text), then cont: the transport call is awaited;
\* whatever it throws is caught (line 206)
notifyTextTelegram(L, text, cont) ==
  LET K == [L EXCEPT !.frame.cont = cont] IN
    IF ~Configured(L.G_ENV) THEN Resume(K)
    ELSE Called([K EXCEPT !.pc = "fetch"],
                [op |-> "fetch", at |-> L.frame.i,
                 botToken |-> L.G_ENV.LOG_TELEGRAM_BOT_TOKEN,
                 chat_id |-> L.G_ENV.LOG_TELEGRAM_CHAT_ID, text |-> text])

\* errDelegate(prefix + message), then cont
errDelegate(L, prefix, message, cont) ==
  notifyTextTelegram(
    Called(L, [op |-> "errDelegate", at |-> L.frame.i,
               prefix |-> prefix, message |-> message]),
    [kind |-> "error", prefix |-> prefix, message |-> message], cont)

\* messageTelegram(logData), then cont
messageTelegram(L, logData, cont) ==
  notifyTextTelegram(
    Called(L, [op |-> "messageTelegram", at |-> L.frame.i, logData |-> logData]),
    [kind |-> "log", logData |-> logData], cont)

\* handleApiRequest returns result to its caller: handleApi returns it as
\* the response (line 79), the webhook loop drops it and goes on (line 134)
Return(L, result) ==
  IF L.frame.mode = "api" THEN Finish(L, result)
  ELSE Loop([L EXCEPT !.frame.i = @ + 1])

\* line 35 with !level for level === undefined
MissingField_falsyLevel(payload) ==
  \/ ~Truthy(Get(payload, "service"))
  \/ ~Truthy(Get(payload, "instance"))
  \/ ~Truthy(Get(payload, "level"))
  \/ ~Truthy(Get(payload, "message"))

\* line 35 without the test of level
MissingField_noLevel(payload) ==
  \/ ~Truthy(Get(payload, "service"))
  \/ ~Truthy(Get(payload, "instance"))
  \/ ~Truthy(Get(payload, "message"))

\* line 35
MissingField(payload) ==
  \/ ~Truthy(Get(payload, "service"))
  \/ ~Truthy(Get(payload, "instance"))
  \/ Get(payload, "level") = Undef
  \/ ~Truthy(Get(payload, "message"))

\* line 45 with > for >=
Forwarded_above3(payload) ==
  Get(payload, "level").t = "number" /\ Get(payload, "level").n > 3

\* line 45
Forwarded(payload) == GreaterEq3(Get(payload, "level"))

\* lines 39-42 with an INSERT that leaves out a row the table already
\* holds from the delivery before
handleApiRequest_dedup(L, requestId, payload) ==
  LET row == <<Get(payload, "service"), Get(payload, "instance"),
               Get(payload, "level"), Get(payload, "message")>>
      held == \E k \in DOMAIN earlier.inserts : earlier.inserts[k].row = row
  IN
    IF MissingField(payload)
    THEN Return(L, nack(requestId, "MissingField",
                        "Missing fields in payload: service, instance, level, message"))
    ELSE IF held THEN Return(L, ack(requestId))
    ELSE Called([L EXCEPT !.pc = "run", !.frame.requestId = requestId,
                          !.frame.payload = payload],
                [op |-> "run", at |-> L.frame.i, db |-> L.G_DB, row |-> row])

\* lines 35-37 with throw for return: the catch of the caller takes over
handleApiRequest_throws(L, requestId, payload) ==
  LET text == "Missing fields in payload: service, instance, level, message"
      K == [L EXCEPT !.frame.requestId = requestId, !.frame.err = text]
  IN
    IF MissingField(payload)
    THEN IF L.frame.mode = "api"
         THEN errDelegate(K, "handleApiRequest failed: ", text, "nack")
         ELSE errDelegate(K, "(boom) handleApiRequest failed: ", text, "second")
    ELSE Called([L EXCEPT !.pc = "run", !.frame.requestId = requestId,
                          !.frame.payload = payload],
                [op |-> "run", at |-> L.frame.i, db |-> L.G_DB,
                 row |-> <<Get(payload, "service"), Get(payload, "instance"),
                           Get(payload, "level"), Get(payload, "message")>>])

\* handleApiRequest up to the await of run() (lines 31-42)
handleApiRequest(L, requestId, payload) ==
  IF MissingField(payload)
  THEN Return(L, nack(requestId, "MissingField",
                      "Missing fields in payload: service, instance, level, message"))
  ELSE Called([L EXCEPT !.pc = "run", !.frame.requestId = requestId,
                        !.frame.payload = payload],
              [op |-> "run", at |-> L.frame.i, db |-> L.G_DB,
               row |-> <<Get(payload, "service"), Get(payload, "instance"),
                         Get(payload, "level"), Get(payload, "message")>>])

\* the catch of line 80 answering with a fixed text for err.message
Settled_fixedText(L, ok, message) ==
  LET K == Called(L, [op |-> "ran", at |-> L.frame.i, ok |-> ok,
                      error |-> message])
  IN
    IF ok
    THEN IF Forwarded(L.frame.payload)
         THEN messageTelegram(K, L.frame.payload, "ack")
         ELSE Return(K, ack(L.frame.requestId))
    ELSE IF L.frame.mode = "api"
         THEN errDelegate([K EXCEPT !.frame.err = "Database error"],
                          "handleApiRequest failed: ", message, "nack")
         ELSE errDelegate([K EXCEPT !.frame.err = message],
                          "(boom) handleApiRequest failed: ", message, "second")

\* lines 42-48 with the failure of run() swallowed: line 45 is reached
\* whether or not the row was stored
Settled_swallowed(L, ok, message) ==
  LET K == Called(L, [op |-> "ran", at |-> L.frame.i, ok |-> ok,
                      error |-> message])
  IN
    IF Forwarded(L.frame.payload)
    THEN messageTelegram(K, L.frame.payload, "ack")
    ELSE Return(K, ack(L.frame.requestId))

\* handleApiRequest once run() has settled (lines 42-48), and the catch of
\* its caller when run() threw (lines 80-83, 135-138)
Settled(L, ok, message) ==
  LET K == Called(L, [op |-> "ran", at |-> L.frame.i, ok |-> ok,
                      error |-> message])
  IN
    IF ok
    THEN IF Forwarded(L.frame.payload)
         THEN messageTelegram(K, L.frame.payload, "ack")
         ELSE Return(K, ack(L.frame.requestId))
    ELSE IF L.frame.mode = "api"
         THEN errDelegate([K EXCEPT !.frame.err = message],
                          "handleApiRequest failed: ", message, "nack")
         ELSE errDelegate([K EXCEPT !.frame.err = message],
                          "(boom) handleApiRequest failed: ", message, "second")

\* the webhook loop from messages[i] on (lines 114-146)
Loop(L) ==
  IF L.frame.i > Len(L.frame.messages) THEN Finish(L, Response("OK", 200))
  ELSE
    LET msg == L.frame.messages[L.frame.i]
        next == [L EXCEPT !.frame.i = @ + 1]
    IN
      IF ReadThrows(msg)
      THEN errDelegate(L, "Webhook error: ", TypeErrorMsg, "internal")
      ELSE IF ~Truthy(Get(msg, "data")) THEN Loop(next)
      ELSE
        LET parsed == JSONparse(Get(msg, "data"))
            K == Called(L, [op |-> "parse", at |-> L.frame.i, ok |-> parsed.ok])
            payload == OptGet(parsed.v, "payload")
        IN
          IF ~parsed.ok
          THEN errDelegate(K, "Could not parse message.data JSON: ",
                           SyntaxErrorMsg, "next")
          ELSE IF ~Truthy(payload) \/ ~TypeofObject(payload)
          THEN Loop([K EXCEPT !.frame.i = @ + 1])
          ELSE handleApiRequest(K, "unknow", payload)

\* the code after an awaited notification
Resume(L) ==
  CASE L.frame.cont = "ack" -> Return(L, ack(L.frame.requestId))
    [] L.frame.cont = "nack" ->
         Finish(L, nack(L.frame.requestId, "DB_ERROR", L.frame.err))
    [] L.frame.cont = "second" ->
         errDelegate(L, "Ably webhook failed: ", L.frame.err, "next")
    [] L.frame.cont = "next" -> Loop([L EXCEPT !.frame.i = @ + 1])
    [] L.frame.cont = "invalid_json" -> Finish(L, Response("Invalid JSON", 400))
    [] L.frame.cont = "invalid_format" ->
         Finish(L, Response("Invalid webhook format", 400))
    [] L.frame.cont = "internal" ->
         Finish(L, Response("Internal Server Error", 500))

\* line 53: the Authorization header is there and starts with "Bearer "
BearerShape(auth) == auth.present /\ auth.s # <<>> /\ startsWith(auth.s, Bearer \o Sp)

\* lines 57-58 with a prefix test for the comparison
TokenMatches_prefix(auth, env) == startsWith(env.DA_WRITETOKEN, split(auth.s)[2])

\* lines 57-58: the second space-separated field is the write token
TokenMatches(auth, env) == split(auth.s)[2] = env.DA_WRITETOKEN

\* lines 51-68 with the body parsed before the Authorization header is
\* looked at
handleApi_parseFirst(L, req) ==
  IF ~JSONparse(req.body).ok
  THEN Finish(Called(L, [op |-> "json", at |-> 0]),
              nack("unknown", "INVALID_JSON", "Malformed JSON body"))
  ELSE IF ~BearerShape(req.Authorization)
  THEN Finish(L, nack("unknown", "UNAUTHORIZED",
                      "Missing or invalid Authorization header"))
  ELSE IF ~TokenMatches(req.Authorization, req.env)
  THEN Finish(L, nack("unknown", "INVALID_TOKEN", "Token authentication failed"))
  ELSE Called([L EXCEPT !.pc = "body", !.frame.mode = "api"],
              [op |-> "json", at |-> 0])

\* handleApi up to the await of request.json() (lines 50-65)
handleApi(L, req) ==
  IF ~BearerShape(req.Authorization)
  THEN Finish(L, nack("unknown", "UNAUTHORIZED",
                      "Missing or invalid Authorization header"))
  ELSE IF ~TokenMatches(req.Authorization, req.env)
  THEN Finish(L, nack("unknown", "INVALID_TOKEN", "Token authentication failed"))
  ELSE Called([L EXCEPT !.pc = "body", !.frame.mode = "api"],
              [op |-> "json", at |-> 0])

\* line 70
RequestIdOf(body) ==
  IF Truthy(Get(body, "request_id")) THEN Get(body, "request_id").s ELSE "unknown"

\* line 71; reading .message of a truthy payload never throws
InvalidField(body) ==
  \/ ~Truthy(Get(body, "payload"))
  \/ ~Truthy(Get(Get(body, "payload"), "message"))

\* handleApi once request.json() has settled (lines 65-79); reading a
\* property of a null body throws outside the try of line 78
handleApiBody(L, req) ==
  LET parsed == JSONparse(req.body)
      body == parsed.v
  IN
    IF ~parsed.ok
    THEN Finish(L, nack("unknown", "INVALID_JSON", "Malformed JSON body"))
    ELSE IF ReadThrows(body) THEN Finish(L, Thrown(TypeErrorMsg))
    ELSE IF InvalidField(body)
    THEN Finish(L, nack(RequestIdOf(body), "INVALID_FIELD",
                        "Missing required field: payload.message"))
    ELSE handleApiRequest([L EXCEPT !.G_ENV = req.env, !.G_DB = req.env.DB],
                          RequestIdOf(body), Get(body, "payload"))

\* line 90 without the comparison
SecretMatches_present(headerSecret, env) == Truthy(headerSecret)

\* line 90
SecretMatches(headerSecret, env) ==
  Truthy(headerSecret) /\ headerSecret = env.ABLY_WEBHOOK_SECRET

\* handleAblyWebhook up to the await of request.text() (lines 86-95)
handleAblyWebhook(L, req) ==
  IF ~SecretMatches(req.XAblyAuth, req.env)
  THEN Finish(L, Response("Unauthorized", 401))
  ELSE Called([L EXCEPT !.pc = "body", !.frame.mode = "ably"],
              [op |-> "text", at |-> 0])

\* line 105
Messages(body) ==
  IF Truthy(Get(body, "items")) THEN Get(body, "items") ELSE Get(body, "messages")

\* lines 97-114 with the loop entered at the second element
handleAblyWebhookBody_fromSecond(L, req) ==
  LET parsed == JSONparse(req.body)
      body == parsed.v
  IN
    IF ~parsed.ok
    THEN errDelegate(L, "JSON parse error:", SyntaxErrorMsg, "invalid_json")
    ELSE IF ReadThrows(body)
    THEN errDelegate(L, "Webhook error: ", TypeErrorMsg, "internal")
    ELSE IF ~Truthy(Messages(body)) \/ Messages(body).t # "array"
    THEN errDelegate(L, "No messages in webhook payload", "", "invalid_format")
    ELSE Loop([L EXCEPT !.G_ENV = req.env, !.G_DB = req.env.DB,
                        !.frame.messages = Messages(body).a, !.frame.i = 2])

\* handleAblyWebhook once request.text() has settled (lines 97-114)
handleAblyWebhookBody(L, req) ==
  LET parsed == JSONparse(req.body)
      body == parsed.v
  IN
    IF ~parsed.ok
    THEN errDelegate(L, "JSON parse error:", SyntaxErrorMsg, "invalid_json")
    ELSE IF ReadThrows(body)
    THEN errDelegate(L, "Webhook error: ", TypeErrorMsg, "internal")
    ELSE IF ~Truthy(Messages(body)) \/ Messages(body).t # "array"
    THEN errDelegate(L, "No messages in webhook payload", "", "invalid_format")
    ELSE Loop([L EXCEPT !.G_ENV = req.env, !.G_DB = req.env.DB,
                        !.frame.messages = Messages(body).a, !.frame.i = 1])

\* lines 16-26 with the path looked at before the method
Route_pathFirst(L, req) ==
  IF req.path = "/api" THEN handleApi(L, req)
  ELSE IF req.path = "/ably" THEN handleAblyWebhook(L, req)
  ELSE IF req.method # "POST" THEN Finish(L, Response("Method Not Allowed", 405))
  ELSE Finish(L, Response("Not Found", 404))

\* the fetch handler (lines 13-27)
Route(L, req) ==
  IF req.method # "POST" THEN Finish(L, Response("Method Not Allowed", 405))
  ELSE IF req.path = "/api" THEN handleApi(L, req)
  ELSE IF req.path = "/ably" THEN handleAblyWebhook(L, req)
  ELSE Finish(L, Response("Not Found", 404))

(***************************************************************************)
(* Actions.                                                                *)
(***************************************************************************)
Running(p) ==
  [pc |-> pc[p], frame |-> frame[p], calls |-> calls[p],
   response |-> response[p], G_ENV |-> G_ENV, G_DB |-> G_DB]

Fresh == [pc |-> "idle", frame |-> NoFrame, calls |-> <<>>,
          response |-> NoResponse, G_ENV |-> G_ENV, G_DB |-> G_DB]

\* request p goes on as N
Becomes(p, N) ==
  /\ pc' = [pc EXCEPT ![p] = N.pc]
  /\ frame' = [frame EXCEPT ![p] = N.frame]
  /\ calls' = [calls EXCEPT ![p] = N.calls]
  /\ response' = [response EXCEPT ![p] = N.response]
  /\ G_ENV' = N.G_ENV
  /\ G_DB' = N.G_DB

\* the exception messages of a failed D1 statement
D1Errors == {"D1_ERROR: no such table: log1", "Network connection lost."}

\* a request arrives on a free slot
Fetch(p) ==
  /\ pc[p] = "idle"
  /\ \E req \in Requests :
       /\ request' = [request EXCEPT ![p] = req]
       /\ Becomes(p, Route(Fresh, req))
  /\ UNCHANGED earlier

\* the INSERTs among the calls c, and whether none of them threw
IsRun(call) == call.op = "run"
Inserts(c) == SelectSeq(c, IsRun)
AllRan(c) == \A k \in DOMAIN c : c[k].op = "ran" => c[k].ok

\* the sender of the webhook delivers the batch it delivered last once more
Redeliver(p) ==
  /\ pc[p] = "done"
  /\ frame[p].mode = "ably"
  /\ ~earlier.delivered
  /\ earlier' = [delivered |-> TRUE, inserts |-> Inserts(calls[p]),
                 held |-> AllRan(calls[p])]
  /\ Becomes(p, Route(Fresh, request[p]))
  /\ UNCHANGED request

\* the runtime has sent the response: the invocation is over
Respond(p) ==
  /\ pc[p] = "done"
  /\ pc' = [pc EXCEPT ![p] = "idle"]
  /\ request' = [request EXCEPT ![p] = NoRequest]
  /\ frame' = [frame EXCEPT ![p] = NoFrame]
  /\ calls' = [calls EXCEPT ![p] = <<>>]
  /\ response' = [response EXCEPT ![p] = NoResponse]
  /\ earlier' = NoEarlier
  /\ UNCHANGED <<G_ENV, G_DB>>

\* request.json() settles
ApiBody(p) ==
  /\ pc[p] = "body"
  /\ frame[p].mode = "api"
  /\ Becomes(p, handleApiBody(Running(p), request[p]))
  /\ UNCHANGED <<request, earlier>>

\* request.text() settles
AblyBody(p) ==
  /\ pc[p] = "body"
  /\ frame[p].mode = "ably"
  /\ Becomes(p, handleAblyWebhookBody(Running(p), request[p]))
  /\ UNCHANGED <<request, earlier>>

\* the INSERT settles: the row is stored, or the statement throws
Run(p) ==
  /\ pc[p] = "run"
  /\ \/ Becomes(p, Settled(Running(p), TRUE, ""))
     \/ \E message \in D1Errors : Becomes(p, Settled(Running(p), FALSE, message))
  /\ UNCHANGED <<request, earlier>>

\* the call of the Telegram API settles: delivered, or it throws
Telegram(p) ==
  /\ pc[p] = "fetch"
  /\ \E ok \in BOOLEAN :
       Becomes(p, Resume(Called(Running(p),
                                [op |-> "fetched", at |-> frame[p].i, ok |-> ok])))
  /\ UNCHANGED <<request, earlier>>

Init ==
  /\ G_ENV = Null
  /\ G_DB = Null
  /\ pc = [p \in Procs |-> "idle"]
  /\ request = [p \in Procs |-> NoRequest]
  /\ frame = [p \in Procs |-> NoFrame]
  /\ calls = [p \in Procs |-> <<>>]
  /\ response = [p \in Procs |-> NoResponse]
  /\ earlier = NoEarlier

Step(p) ==
  \/ Fetch(p)
  \/ Redeliver(p)
  \/ Respond(p)
  \/ ApiBody(p)
  \/ AblyBody(p)
  \/ Run(p)
  \/ Telegram(p)

\* one request at a time
Next == Step(1)

Spec == Init /\ [][Next]_vars

(***************************************************************************)
(* What the properties read off a request.                                 *)
(***************************************************************************)
\* Two invocations in flight in one isolate, each with the env it was
\* called with; they interleave at their awaits and share G_ENV and G_DB
\* (lines 212-213).  Each is a valid request that stores and notifies.
TwoEvents ==
  Json(WebhookEnvelope(Arr(<<
    WebhookMessage(Json(Inner(LogEvent(Str("svc"), Str("i1"), Num(3), Str("boom"))))),
    WebhookMessage(Json(Inner(LogEvent(Str("svc"), Str("i1"), Num(0), Str("boom")))))>>),
    Undef))
OverlappingEnvs ==
  {Environment("db1", Str("bot"), Str("chat")), Environment("db2", Undef, Undef)}
OverlappingRequests ==
  {Request("POST", "/api", Header(Bearer \o Sp \o Tok), Undef, AnyBody, e) :
     e \in OverlappingEnvs}
    \cup {Request("POST", "/ably", NoHeader, Secret, TwoEvents, e) :
            e \in OverlappingEnvs}

FetchOverlapping(p) ==
  /\ pc[p] = "idle"
  /\ \E req \in OverlappingRequests :
       /\ request' = [request EXCEPT ![p] = req]
       /\ Becomes(p, Route(Fresh, req))
  /\ UNCHANGED earlier

StepOverlapping(p) ==
  \/ FetchOverlapping(p)
  \/ Respond(p)
  \/ ApiBody(p)
  \/ AblyBody(p)
  \/ Run(p)
  \/ Telegram(p)

NextOverlapping == \E p \in Procs : StepOverlapping(p)

SpecOverlapping == Init /\ [][NextOverlapping]_vars

PostApi(p) == request[p].method = "POST" /\ request[p].path = "/api"
PostAbly(p) == request[p].method = "POST" /\ request[p].path = "/ably"

\* the Authorization header is "Bearer <token>..." with the write token of
\* the request's context as its token
AuthenticatedApi(p) ==
  /\ PostApi(p)
  /\ request[p].Authorization.present
  /\ startsWith(request[p].Authorization.s, Bearer \o Sp)
  /\ split(request[p].Authorization.s)[2] = request[p].env.DA_WRITETOKEN

AuthenticatedAbly(p) ==
  /\ PostAbly(p)
  /\ request[p].XAblyAuth = request[p].env.ABLY_WEBHOOK_SECRET

\* the body as JSON, and what it carries
Body(p) == JSONparse(request[p].body)
PayloadOf(p) == Get(Body(p).v, "payload")
\* an empty request_id counts as absent
ExpectedId(p) ==
  LET r == Get(Body(p).v, "request_id") IN
    IF r.t = "string" /\ r.s # "" THEN r.s ELSE "unknown"
RowOf(e) == <<e.service, e.instance, e.level, e.message>>

\* a payload object with truthy service, instance and message and a number
\* as its level
ValidEvent(e) ==
  /\ e.t = "object"
  /\ {"service", "instance", "level", "message"} \subseteq DOMAIN e
  /\ Truthy(e.service) /\ Truthy(e.instance) /\ Truthy(e.message)
  /\ e.level.t = "number"

\* the calls of request p on one collaborator, by position in calls[p]
Calls(p, op) == {k \in DOMAIN calls[p] : calls[p][k].op = op}
Appends(p) == Calls(p, "run")
Notifications(p) == Calls(p, "messageTelegram")
Reports(p) == Calls(p, "errDelegate")
Transports(p) == Calls(p, "fetch")
\* no INSERT of the request has thrown
StorageHeld(p) == \A k \in Calls(p, "ran") : calls[p][k].ok

IsAck(r, requestId) ==
  /\ r.shape = "json" /\ r.status = 200
  /\ r.json.type = "ack" /\ r.json.request_id = requestId
IsNack(r, requestId, codes) ==
  /\ r.shape = "json" /\ r.status = 400
  /\ r.json.type = "nack" /\ r.json.request_id = requestId
  /\ r.json.payload.status = "error" /\ r.json.payload.code \in codes

LowEvent(p) ==
  /\ AuthenticatedApi(p)
  /\ ValidEvent(PayloadOf(p))
  /\ PayloadOf(p).level.n < 3

(***************************************************************************)
(* C1: an authenticated POST /api whose payload has truthy service,        *)
(* instance and message and a level below 3 (0 included) is answered, once *)
(* the INSERT has run without throwing, by an ack with HTTP 200 and the    *)
(* body's request_id ("unknown" without one); exactly one INSERT was made, *)
(* with the payload's four fields, and no notification was sent.           *)
(***************************************************************************)
C1_LowLevelStoredNotNotified ==
  \A p \in Procs :
    (pc[p] = "done" /\ LowEvent(p) /\ StorageHeld(p)) =>
      /\ IsAck(response[p], ExpectedId(p))
      /\ Cardinality(Appends(p)) = 1
      /\ \A k \in Appends(p) : calls[p][k].row = RowOf(PayloadOf(p))
      /\ Notifications(p) = {} /\ Reports(p) = {} /\ Transports(p) = {}

\* level 0 was stored and acknowledged
C1_Witness ==
  \E p \in Procs :
    /\ pc[p] = "done" /\ LowEvent(p) /\ StorageHeld(p)
    /\ PayloadOf(p).level = Num(0)
    /\ Get(Body(p).v, "request_id") = Str("r1")
    /\ IsAck(response[p], "r1")
    /\ Cardinality(Appends(p)) = 1

HighEvent(p) ==
  /\ AuthenticatedApi(p)
  /\ ValidEvent(PayloadOf(p))
  /\ PayloadOf(p).level.n >= 3

(***************************************************************************)
(* C2: an authenticated POST /api with a valid payload of level 3 or more  *)
(* makes, once the INSERT has run without throwing, exactly one INSERT and *)
(* exactly one notification send, and is answered by an ack whether the    *)
(* transport call of the notification succeeds or throws.                  *)
(***************************************************************************)
C2_HighLevelNotifiedOnce ==
  \A p \in Procs :
    (pc[p] = "done" /\ HighEvent(p) /\ StorageHeld(p)) =>
      /\ IsAck(response[p], ExpectedId(p))
      /\ Cardinality(Appends(p)) = 1
      /\ Cardinality(Notifications(p)) = 1
      /\ \A k \in Notifications(p) : calls[p][k].logData = PayloadOf(p)
      /\ Cardinality(Transports(p)) <= 1
      /\ Reports(p) = {}

\* the transport call threw and the request was still acknowledged
C2_Witness ==
  \E p \in Procs :
    /\ pc[p] = "done" /\ HighEvent(p) /\ StorageHeld(p)
    /\ \E k \in Calls(p, "fetched") : ~calls[p][k].ok
    /\ IsAck(response[p], ExpectedId(p))
    /\ Cardinality(Appends(p)) = 1

LacksField(p) ==
  /\ AuthenticatedApi(p)
  /\ PayloadOf(p).t = "object"
  /\ \E f \in {"service", "instance", "level", "message"} : Get(PayloadOf(p), f) = Undef

(***************************************************************************)
(* C3: an authenticated POST /api whose payload object lacks service,      *)
(* instance, level or message (the property is absent) is answered by a    *)
(* nack with HTTP 400 and code MissingField or INVALID_FIELD, and no       *)
(* INSERT is made.                                                         *)
(***************************************************************************)
C3_MissingFieldNack ==
  \A p \in Procs :
    (pc[p] = "done" /\ LacksField(p)) =>
      /\ IsNack(response[p], ExpectedId(p), {"MissingField", "INVALID_FIELD"})
      /\ Appends(p) = {}

\* only the level is absent
C3_Witness ==
  \E p \in Procs :
    /\ pc[p] = "done" /\ LacksField(p)
    /\ PayloadOf(p) = LogEvent(Str("svc"), Str("i1"), Undef, Str("boom"))
    /\ IsNack(response[p], ExpectedId(p), {"MissingField"})

(***************************************************************************)
(* C4: a POST /api whose Authorization header is missing or does not start *)
(* with "Bearer " is answered by a nack UNAUTHORIZED, one whose token is   *)
(* not the write token by a nack INVALID_TOKEN; both with HTTP 400 and     *)
(* request_id "unknown", without an INSERT and without a notification.     *)
(***************************************************************************)
C4_UnauthenticatedApiNack ==
  \A p \in Procs :
    (pc[p] # "idle" /\ PostApi(p) /\ ~AuthenticatedApi(p)) =>
      /\ pc[p] = "done"
      /\ IsNack(response[p], "unknown",
                IF /\ request[p].Authorization.present
                   /\ startsWith(request[p].Authorization.s, Bearer \o Sp)
                THEN {"INVALID_TOKEN"} ELSE {"UNAUTHORIZED"})
      /\ calls[p] = <<>>

\* a well-formed header with another token
C4_Witness ==
  \E p \in Procs :
    /\ pc[p] = "done" /\ PostApi(p)
    /\ request[p].Authorization = Header(Bearer \o Sp \o Bad)
    /\ IsNack(response[p], "unknown", {"INVALID_TOKEN"})

(***************************************************************************)
(* C5: a POST /ably whose X-Ably-Auth header is absent or is not the       *)
(* webhook secret is answered by the plain text 401 "Unauthorized"; its    *)
(* body is not read, nothing is parsed, stored or notified.                *)
(***************************************************************************)
C5_UnauthenticatedAbly401 ==
  \A p \in Procs :
    (pc[p] # "idle" /\ PostAbly(p) /\ ~AuthenticatedAbly(p)) =>
      /\ pc[p] = "done"
      /\ response[p] = [shape |-> "text", status |-> 401, text |-> "Unauthorized"]
      /\ calls[p] = <<>>

\* a wrong secret was turned away
C5_Witness ==
  \E p \in Procs :
    /\ pc[p] = "done" /\ PostAbly(p)
    /\ request[p].XAblyAuth = Str("wrong")
    /\ response[p].status = 401

(***************************************************************************)
(* What the properties read off a webhook batch.                           *)
(***************************************************************************)
\* the body exposes an array: items, or messages where there is no items
ExposesBatch(p) ==
  /\ AuthenticatedAbly(p)
  /\ Body(p).ok
  /\ \/ Get(Body(p).v, "items").t = "array"
     \/ Get(Body(p).v, "items") = Undef /\ Get(Body(p).v, "messages").t = "array"
BatchOf(p) ==
  IF Get(Body(p).v, "items").t = "array" THEN Get(Body(p).v, "items").a
  ELSE Get(Body(p).v, "messages").a

\* an element with a data string that is no JSON
Unparseable(m) == m.t = "object" /\ Get(m, "data") = Garbage
\* an element whose data decodes to {payload: <valid event>}
CarriesEvent(m) ==
  /\ m.t = "object"
  /\ Get(m, "data").t = "string"
  /\ "doc" \in DOMAIN Get(m, "data")
  /\ ValidEvent(Get(Get(m, "data").doc, "payload"))
EventOf(m) == m.data.doc.payload

\* the calls made while element i of the batch was handled
CallsAt(p, op, i) == {k \in Calls(p, op) : calls[p][k].at = i}

(***************************************************************************)
(* C6: in an authenticated /ably batch (no INSERT throwing) every element  *)
(* whose data is no JSON is reported to errDelegate and skipped, every     *)
(* element with a valid payload is stored exactly once, and the answer is  *)
(* 200 "OK".                                                               *)
(***************************************************************************)
C6_UnparseableSkippedOthersStored ==
  \A p \in Procs :
    ( /\ pc[p] = "done" /\ ExposesBatch(p) /\ StorageHeld(p)
      /\ \E i \in DOMAIN BatchOf(p) : Unparseable(BatchOf(p)[i]) ) =>
      /\ response[p] = [shape |-> "text", status |-> 200, text |-> "OK"]
      /\ \A i \in DOMAIN BatchOf(p) :
           /\ Unparseable(BatchOf(p)[i]) =>
                /\ Cardinality(CallsAt(p, "errDelegate", i)) = 1
                /\ CallsAt(p, "run", i) = {}
           /\ CarriesEvent(BatchOf(p)[i]) =>
                /\ Cardinality(CallsAt(p, "run", i)) = 1
                /\ \A k \in CallsAt(p, "run", i) :
                     calls[p][k].row = RowOf(EventOf(BatchOf(p)[i]))

(***************************************************************************)
(* C7: an authenticated /ably request whose body exposes an array examines *)
(* every element, whatever the shape of the others, and is answered by     *)
(* 200 "OK".                                                               *)
(***************************************************************************)
C7_NoElementAbortsBatch ==
  \A p \in Procs :
    (pc[p] = "done" /\ ExposesBatch(p)) =>
      /\ response[p] = [shape |-> "text", status |-> 200, text |-> "OK"]
      /\ frame[p].i = Len(BatchOf(p)) + 1

(***************************************************************************)
(* C8: a POST /api whose body is JSON ends in an ack with HTTP 200 or a    *)
(* nack with HTTP 400; no exception leaves the handler.                    *)
(***************************************************************************)
C8_ApiAlwaysAckOrNack ==
  \A p \in Procs :
    (pc[p] = "done" /\ PostApi(p) /\ Body(p).ok) =>
      /\ response[p].shape = "json"
      /\ \/ response[p].json.type = "ack" /\ response[p].status = 200
         \/ response[p].json.type = "nack" /\ response[p].status = 400

(***************************************************************************)
(* C9: when the INSERT of a POST /api throws, the exception is reported    *)
(* once to errDelegate and the answer is a nack DB_ERROR with the message  *)
(* of the exception and the request_id of the body; the INSERT was tried   *)
(* once and no level notification was sent.                                *)
(***************************************************************************)
C9_StorageFailureNack ==
  \A p \in Procs :
    (pc[p] = "done" /\ AuthenticatedApi(p) /\ ~StorageHeld(p)) =>
      /\ IsNack(response[p], ExpectedId(p), {"DB_ERROR"})
      /\ Cardinality(Appends(p)) = 1
      /\ Cardinality(Calls(p, "ran")) = 1
      /\ \A k \in Calls(p, "ran") :
           /\ response[p].json.payload.message = calls[p][k].error
           /\ \A r \in Reports(p) : calls[p][r].message = calls[p][k].error
      /\ Cardinality(Reports(p)) = 1
      /\ Notifications(p) = {}

\* the INSERT of a level 5 event threw
C9_Witness ==
  \E p \in Procs :
    /\ pc[p] = "done" /\ AuthenticatedApi(p) /\ ~StorageHeld(p)
    /\ PayloadOf(p).level = Num(5)
    /\ IsNack(response[p], "r1", {"DB_ERROR"})
    /\ response[p].json.payload.message = "Network connection lost."

(***************************************************************************)
(* C10: when the same authenticated webhook request is delivered twice (no *)
(* INSERT throwing), the second delivery makes the INSERTs of the first    *)
(* once more, to the same handle and in the same order: the rows after two *)
(* deliveries are twice those after one.                                   *)
(***************************************************************************)
C10_RedeliveryDuplicates ==
  \A p \in Procs :
    ( /\ pc[p] = "done" /\ earlier.delivered /\ AuthenticatedAbly(p)
      /\ AllRan(calls[p]) /\ earlier.held ) =>
      /\ Inserts(calls[p]) = earlier.inserts
      /\ Len(earlier.inserts \o Inserts(calls[p])) = 2 * Len(earlier.inserts)

\* a batch of two valid events was stored twice
C10_Witness ==
  \E p \in Procs :
    /\ pc[p] = "done" /\ earlier.delivered /\ AuthenticatedAbly(p)
    /\ AllRan(calls[p]) /\ earlier.held
    /\ Len(earlier.inserts) = 2
    /\ Len(Inserts(calls[p])) = 2

(***************************************************************************)
(* C11: a request whose method is not POST is answered by 405 whatever its *)
(* path and headers, with no call made (no body read, INSERT or            *)
(* notification); a POST to /api is handled by handleApi, a POST to /ably  *)
(* by handleAblyWebhook, and a POST to any other path is answered by 404   *)
(* with no call made.                                                      *)
(***************************************************************************)
C11_RouterDispatch ==
  \A p \in Procs :
    pc[p] # "idle" =>
      /\ request[p].method # "POST" =>
           /\ pc[p] = "done" /\ calls[p] = <<>> /\ frame[p].mode = "none"
           /\ response[p] =
                [shape |-> "text", status |-> 405, text |-> "Method Not Allowed"]
      /\ (request[p].method = "POST" /\ request[p].path \notin {"/api", "/ably"}) =>
           /\ pc[p] = "done" /\ calls[p] = <<>> /\ frame[p].mode = "none"
           /\ response[p] = [shape |-> "text", status |-> 404, text |-> "Not Found"]
      /\ PostApi(p) =>
           /\ response[p].shape \in {"none", "json", "throw"}
           /\ \/ frame[p].mode = "api"
              \/ IsNack(response[p], "unknown", {"UNAUTHORIZED", "INVALID_TOKEN"})
      /\ PostAbly(p) =>
           /\ response[p].shape \in {"none", "text"}
           /\ \/ frame[p].mode = "ably"
              \/ response[p].status = 401

\* GET /api without an Authorization header was answered by 405
C11_Witness ==
  \E p \in Procs :
    /\ pc[p] = "done"
    /\ request[p].method = "GET" /\ request[p].path = "/api"
    /\ ~request[p].Authorization.present
    /\ response[p].status = 405
    /\ calls[p] = <<>>

\* one of the two fields of the parsed body of an authenticated webhook
\* request is an array, and the array the batch is to be taken from
ArrayUnder(p, field) == Get(Body(p).v, field).t = "array"
PreferredBatch(p) ==
  IF ArrayUnder(p, "items") THEN Get(Body(p).v, "items").a
  ELSE Get(Body(p).v, "messages").a
InvalidWebhookFormat ==
  [shape |-> "text", status |-> 400, text |-> "Invalid webhook format"]

(***************************************************************************)
(* C12: an authenticated /ably request whose parsed body has an array      *)
(* under items or under messages is processed as a batch, the array under  *)
(* items when both are arrays; the response is 400 "Invalid webhook        *)
(* format", with errDelegate invoked, only when neither field is an array. *)
(***************************************************************************)
C12_BatchWheneverArrayExposed ==
  \A p \in Procs :
    (pc[p] = "done" /\ AuthenticatedAbly(p) /\ Body(p).ok /\ Body(p).v # Null) =>
      /\ (ArrayUnder(p, "items") \/ ArrayUnder(p, "messages")) =>
           /\ frame[p].messages = PreferredBatch(p)
           /\ frame[p].i >= 1
           /\ response[p] # InvalidWebhookFormat
      /\ response[p] = InvalidWebhookFormat =>
           /\ ~ArrayUnder(p, "items") /\ ~ArrayUnder(p, "messages")
           /\ Cardinality(Reports(p)) = 1

(***************************************************************************)
(* C13: with two requests in flight, every INSERT of a request goes to the *)
(* D1 binding of the env the request was invoked with, every call of the   *)
(* Telegram API it makes carries the bot token and chat id of that env,    *)
(* and with both present in that env every messageTelegram call is         *)
(* followed by the call of the Telegram API.                               *)
(***************************************************************************)
C13_OwnContextUnderConcurrency ==
  \A p \in Procs :
    /\ \A k \in Appends(p) : calls[p][k].db = request[p].env.DB
    /\ \A k \in Transports(p) :
         /\ calls[p][k].botToken = request[p].env.LOG_TELEGRAM_BOT_TOKEN
         /\ calls[p][k].chat_id = request[p].env.LOG_TELEGRAM_CHAT_ID
    /\ Configured(request[p].env) =>
         \A k \in Notifications(p) : k + 1 \in Transports(p)

(***************************************************************************)
(* C14: an authenticated /ably request whose body is no JSON is answered   *)
(* by 400 "Invalid JSON" and the parse error is reported to errDelegate;   *)
(* when the env of the request holds the bot token and the chat id, the    *)
(* report is sent by one call of the Telegram API, also when the request   *)
(* is the first one of the isolate.                                        *)
(***************************************************************************)
C14_ParseErrorSent ==
  \A p \in Procs :
    (pc[p] = "done" /\ AuthenticatedAbly(p) /\ ~Body(p).ok) =>
      /\ response[p] = [shape |-> "text", status |-> 400, text |-> "Invalid JSON"]
      /\ Cardinality(Reports(p)) = 1
      /\ Configured(request[p].env) =>
           /\ Cardinality(Transports(p)) = 1
           /\ \A k \in Transports(p) :
                /\ calls[p][k].text.kind = "error"
                /\ calls[p][k].botToken = request[p].env.LOG_TELEGRAM_BOT_TOKEN
                /\ calls[p][k].chat_id = request[p].env.LOG_TELEGRAM_CHAT_ID

\* an element whose data decodes to {payload: <object lacking a field>},
\* and the elements of the batch of p that were handed to handleApiRequest
\* although they lack a field
MissesField(m) ==
  /\ m.t = "object"
  /\ Get(m, "data").t = "string"
  /\ "doc" \in DOMAIN Get(m, "data")
  /\ Get(Get(m, "data").doc, "payload").t = "object"
  /\ MissingField(Get(Get(m, "data").doc, "payload"))
HandedIncomplete(p) ==
  {i \in DOMAIN BatchOf(p) : MissesField(BatchOf(p)[i]) /\ CallsAt(p, "parse", i) # {}}

(***************************************************************************)
(* C15: when a field is missing handleApiRequest raises instead of         *)
(* returning: on the webhook path the per-message catch reports the        *)
(* element to errDelegate, no INSERT is made for it and the loop goes on   *)
(* to the next element; on /api, with payload.message there, the catch of  *)
(* the caller reports it.                                                  *)
(***************************************************************************)
C15_MissingFieldRaised ==
  \A p \in Procs :
    /\ (pc[p] = "done" /\ ExposesBatch(p)) =>
         \A i \in HandedIncomplete(p) :
           /\ CallsAt(p, "errDelegate", i) # {}
           /\ CallsAt(p, "run", i) = {}
           /\ frame[p].i > i
    /\ (pc[p] = "done" /\ LacksField(p) /\ Truthy(Get(PayloadOf(p), "message"))) =>
         /\ Reports(p) # {}
         /\ Appends(p) = {}

(***************************************************************************)
(* C15 as amended: when a field is missing handleApiRequest returns a      *)
(* MissingField nack and raises nothing: on the webhook path the returned  *)
(* nack is dropped, so nothing is reported to errDelegate for the element, *)
(* no INSERT is made for it and the loop goes on to the next element; on   *)
(* /api, with payload.message there, the nack is the response and nothing  *)
(* is reported either.                                                     *)
(***************************************************************************)
C15_MissingFieldReturned ==
  \A p \in Procs :
    /\ (pc[p] = "done" /\ ExposesBatch(p)) =>
         \A i \in HandedIncomplete(p) :
           /\ CallsAt(p, "errDelegate", i) = {}
           /\ CallsAt(p, "run", i) = {}
           /\ frame[p].i > i
    /\ (pc[p] = "done" /\ LacksField(p) /\ Truthy(Get(PayloadOf(p), "message"))) =>
         /\ IsNack(response[p], ExpectedId(p), {"MissingField"})
         /\ Reports(p) = {}
         /\ Appends(p) = {}

\* a batch whose first element lacks a field and whose second was stored
C15_Witness ==
  \E p \in Procs :
    /\ pc[p] = "done" /\ ExposesBatch(p)
    /\ 1 \in HandedIncomplete(p)
    /\ Reports(p) = {}
    /\ CallsAt(p, "run", 2) # {}
    /\ response[p] = [shape |-> "text", status |-> 200, text |-> "OK"]

\* the elements of the batch of p whose INSERT threw
FailedAt(p) ==
  {i \in DOMAIN BatchOf(p) : \E k \in CallsAt(p, "ran", i) : ~calls[p][k].ok}

(***************************************************************************)
(* C16: when the INSERT of an element of an authenticated /ably batch      *)
(* throws, the per-message catch reports it to errDelegate exactly twice,  *)
(* the INSERT is not made again, the elements after it are still handled   *)
(* and the response is 200 "OK".                                           *)
(***************************************************************************)
C16_AppendFailureReportedTwice ==
  \A p \in Procs :
    (pc[p] = "done" /\ ExposesBatch(p) /\ FailedAt(p) # {}) =>
      /\ \A i \in FailedAt(p) :
           /\ Cardinality(CallsAt(p, "errDelegate", i)) = 2
           /\ Cardinality(CallsAt(p, "run", i)) = 1
      /\ frame[p].i = Len(BatchOf(p)) + 1
      /\ \A j \in DOMAIN BatchOf(p) :
           CarriesEvent(BatchOf(p)[j]) => Cardinality(CallsAt(p, "run", j)) = 1
      /\ response[p] = [shape |-> "text", status |-> 200, text |-> "OK"]

\* the checks of a POST to /api, as properties of the request
ShapeOk(p) ==
  /\ request[p].Authorization.present
  /\ startsWith(request[p].Authorization.s, Bearer \o Sp)
ParseOk(p) == Body(p).ok
PresenceOk(p) == Truthy(PayloadOf(p)) /\ Truthy(Get(PayloadOf(p), "message"))

RECURSIVE PrefixRows(_, _)
PrefixRows(b, n) ==
  IF n = 0 THEN <<>>
  ELSE IF CarriesEvent(b[n])
       THEN Append(PrefixRows(b, n - 1), RowOf(EventOf(b[n])))
       ELSE PrefixRows(b, n - 1)
RunRows(p) ==
  [k \in DOMAIN Inserts(calls[p]) |-> Inserts(calls[p])[k].row]

(***************************************************************************)
(* C18: in every state of an authenticated /ably batch the elements are    *)
(* handled one at a time in the order of the array: nothing has been done  *)
(* for an element after the current one, the calls are in the order of the *)
(* elements, an INSERT is followed by its outcome before anything else is  *)
(* done, and the rows of the INSERTs made so far are those of the elements *)
(* carrying an event among a prefix of the array, in the order of the      *)
(* array.                                                                  *)
(***************************************************************************)
C18_OneAtATimeInArrayOrder ==
  \A p \in Procs :
    (frame[p].mode = "ably" /\ ExposesBatch(p)) =>
      /\ \A k \in DOMAIN calls[p] : calls[p][k].at <= frame[p].i
      /\ \A k, l \in DOMAIN calls[p] : k < l => calls[p][k].at <= calls[p][l].at
      /\ \A k \in Appends(p) :
           IF k = Len(calls[p])
           THEN pc[p] = "run" /\ frame[p].i = calls[p][k].at
           ELSE calls[p][k + 1].op = "ran" /\ calls[p][k + 1].at = calls[p][k].at
      /\ \E n \in {frame[p].i - 1, frame[p].i} \cap (0..Len(BatchOf(p))) :
           RunRows(p) = PrefixRows(BatchOf(p), n)

\* the first element is stored and the INSERT of the second is awaited
C18_Witness ==
  \E p \in Procs :
    /\ pc[p] = "run" /\ ExposesBatch(p)
    /\ frame[p].i = 2 /\ Len(BatchOf(p)) = 2
    /\ \E k \in CallsAt(p, "ran", 1) : calls[p][k].ok
    /\ Cardinality(Appends(p)) = 2

\* the env the request was invoked with holds both Telegram settings
HoldsBoth(env) ==
  Truthy(env.LOG_TELEGRAM_BOT_TOKEN) /\ Truthy(env.LOG_TELEGRAM_CHAT_ID)
Min(a, b) == IF a < b THEN a ELSE b

(***************************************************************************)
(* C19: a call of the Telegram API is made only with both the bot token    *)
(* and the chat id resolved from the configuration: when either is absent  *)
(* a send, of a log event or of an error text, makes no call and raises    *)
(* nothing.  A request that has installed an env lacking one of them makes *)
(* no call of the Telegram API at all, and its INSERTs, its sends and its  *)
(* response are what they are when the notification is delivered: one      *)
(* INSERT and an ack (or the DB_ERROR nack when the INSERT threw) on /api, *)
(* the INSERTs of the elements handled on /ably.                           *)
(***************************************************************************)
C19_AbsentCredentialsNoOp ==
  \A p \in Procs :
    /\ \A k \in Transports(p) :
         Truthy(calls[p][k].botToken) /\ Truthy(calls[p][k].chat_id)
    /\ (pc[p] = "done" /\ ~HoldsBoth(request[p].env)
          /\ AuthenticatedApi(p) /\ ValidEvent(PayloadOf(p))) =>
         /\ Transports(p) = {}
         /\ Cardinality(Appends(p)) = 1
         /\ StorageHeld(p) =>
              /\ IsAck(response[p], ExpectedId(p))
              /\ Cardinality(Notifications(p)) = IF HighEvent(p) THEN 1 ELSE 0
              /\ Reports(p) = {}
         /\ ~StorageHeld(p) =>
              /\ IsNack(response[p], ExpectedId(p), {"DB_ERROR"})
              /\ Cardinality(Reports(p)) = 1
    /\ (pc[p] = "done" /\ ~HoldsBoth(request[p].env) /\ ExposesBatch(p)) =>
         /\ Transports(p) = {}
         /\ response[p].shape = "text"
         /\ RunRows(p) = PrefixRows(BatchOf(p), Min(frame[p].i, Len(BatchOf(p))))

\* a level-3 event was stored and acknowledged, its notification was asked
\* for and given up for want of a chat id
C19_Witness ==
  \E p \in Procs :
    /\ pc[p] = "done" /\ HighEvent(p)
    /\ Truthy(request[p].env.LOG_TELEGRAM_BOT_TOKEN)
    /\ request[p].env.LOG_TELEGRAM_CHAT_ID = Undef
    /\ Cardinality(Notifications(p)) = 1
    /\ Transports(p) = {}
    /\ IsAck(response[p], ExpectedId(p))

(***************************************************************************)
(* C20: messageTelegram is called for an event only right after the INSERT *)
(* of that very event has settled without throwing, and at most once; for  *)
(* a payload or element whose validation failed (no INSERT was made) or    *)
(* whose INSERT threw, messageTelegram is not called.                      *)
(***************************************************************************)
C20_NotifiedOnlyAfterStored ==
  \A p \in Procs :
    /\ \A k \in Notifications(p) :
         /\ k > 2
         /\ calls[p][k - 1].op = "ran" /\ calls[p][k - 1].ok
         /\ calls[p][k - 1].at = calls[p][k].at
         /\ calls[p][k - 2].op = "run"
         /\ calls[p][k - 2].row = RowOf(calls[p][k].logData)
         /\ Cardinality(CallsAt(p, "messageTelegram", calls[p][k].at)) = 1
    /\ \A k \in Calls(p, "ran") :
         ~calls[p][k].ok => CallsAt(p, "messageTelegram", calls[p][k].at) = {}
    /\ \A i \in 0..MaxBatch :
         CallsAt(p, "run", i) = {} => CallsAt(p, "messageTelegram", i) = {}

\* a batch of two level-3 events: the INSERT of the first threw and nothing
\* was notified for it, the second was stored and then notified
C20_Witness ==
  \E p \in Procs :
    /\ ExposesBatch(p) /\ Len(BatchOf(p)) = 2
    /\ \E k \in CallsAt(p, "ran", 1) : ~calls[p][k].ok
    /\ CallsAt(p, "messageTelegram", 1) = {}
    /\ \E k \in CallsAt(p, "ran", 2) : calls[p][k].ok
    /\ CallsAt(p, "messageTelegram", 2) # {}

====
